---- MODULE Spec2Model ----
(***************************************************************************)
(* AI security and privacy mediation layer of the budget assistant:        *)
(* AISecurityFilter (sanitize_input, filter_output), PrivacyManager        *)
(* (should_use_local_processing, anonymize_context) and the orchestrator   *)
(* UnifiedFinancialAgent.process_query that drives them; and, around it,   *)
(* the services the routes use: AuthenticationManager / AuthService        *)
(* (lockout, sessions, tokens), the transactions routes and the            *)
(* ConversationService.                                                    *)
(*                                                                         *)
(* Texts.  A text is a sequence of segments [k, n]: the first n characters *)
(* of the literal named k, or a run of n equal characters for the run      *)
(* kinds.  Lengths are exact, so the 10,000 / 50,000 character limits are  *)
(* the program's own.  The alphabet of the modelled texts is               *)
(*   a    run of the letter "a"          dot  run of "."                   *)
(*   dig  run of the digit "1"           ssn  123-45-6789                  *)
(*   eval eval(                          ign  ignore previous instructions *)
(*   tax  tax                            kw4  income tax debt loan         *)
(*   adv  guaranteed returns             stub (local) Processed locally:   *)
(*   fil  [FILTERED]                     red  [REDACTED]                   *)
(*   trunc  newline + [Response truncated]                                 *)
(* Over this alphabet no whitespace follows a digit, and there is no "@"   *)
(* and no "(ddd)", so the e-mail, parenthesised-phone and street-address   *)
(* patterns match nothing; a digit run is one dig segment (WellFormed      *)
(* forbids digit segments next to each other), so a pattern match is       *)
(* always a whole segment.                                                 *)
(***************************************************************************)
EXTENDS Integers, Sequences, FiniteSets, TLC

VARIABLES
  op,     \* the operation the caller invoked, "idle" between calls
  pc,     \* position inside the running operation
  args,   \* its arguments: text, context, user_id
  ret,    \* what it returned or raised
  san,    \* process_query: result of sanitize_input
  route,  \* should_use_local_processing: consent lookup and decision
  anon,   \* result of anonymize_context
  agent,  \* process_query: what the local generator / _process_internal received
  out,    \* process_query: result of filter_output
  reqs,   \* process_query: the requests in flight on the shared instances
  clock,  \* datetime.utcnow(), in minutes
  auth_manager,   \* AuthenticationManager: failed_attempts, lockout_times
  sessions,       \* AuthService.sessions
  tokens,         \* the token payloads create_user_session has signed
  db,     \* the tables users, transactions, conversations, messages
  reply,  \* what the last call of the services and routes answered
  failed_logins   \* LOGIN_FAILED events since the last LOGIN_SUCCESS

\* the security layer and its orchestrator
security_state == <<op, pc, args, ret, san, route, anon, agent, out>>

\* the authentication service, the tables and the requests in flight
service_state == <<reqs, clock, auth_manager, sessions, tokens, db, reply, failed_logins>>

vars == <<op, pc, args, ret, san, route, anon, agent, out,
          reqs, clock, auth_manager, sessions, tokens, db, reply, failed_logins>>

-----------------------------------------------------------------------------
(* Bounds of the explored inputs *)

MaxSegs == 2

\* minutes of the clock, minutes between two looks at it, failed logins in a
\* row and sessions created, that are explored
MaxClock == 45
TickMinutes == 15
MaxFailedLogins == 11
\* process_query requests in flight at the same time
MaxRequests == 2
MaxSessions == 2
\* rows of the transactions table that are explored
MaxTransactions == 3
\* rows of the conversations and messages tables that are explored
MaxConversations == 2
MaxMessages == 2

-----------------------------------------------------------------------------
(* Program constants *)

max_input_length == 10000
max_output_length == 50000
\* local_processing_threshold 0.8 and the weights 0.2/0.3/0.4/0.5, in tenths
local_processing_threshold == 8
KeywordWeight == 2
TransactionDataWeight == 3
AccountInfoWeight == 4
PersonalInfoWeight == 5
\* user_input[:500] of the local stub
StubPreview == 500
\* the confidence of a response, in tenths: 0.9 on the local path, 0.5 of
\* classify_query when no intent keyword occurs, 0.0 of the error response
LocalConfidence == 9
GeneralConfidence == 5
ErrorConfidence == 0
\* create_engine(..., connect_args={..., "timeout": 30}): seconds sqlite waits
\* for a lock before it raises OperationalError
busy_timeout == 30
\* record_failed_attempt: 5 attempts = 5 min, 10 attempts = 30 min
FirstLockoutAttempts == 5
FirstLockoutMinutes == 5
SecondLockoutAttempts == 10
SecondLockoutMinutes == 30
\* lifetimes of the access and refresh tokens
ACCESS_TOKEN_EXPIRE_MINUTES == 30
REFRESH_TOKEN_EXPIRE_DAYS == 7

-----------------------------------------------------------------------------
(* Characters and segments *)

RunKinds == {"a", "dot", "dig"}

RunChar(k) == CASE k = "a" -> "a" [] k = "dot" -> "." [] k = "dig" -> "1"

Lit(k) ==
  CASE k = "eval" -> <<"e","v","a","l","(">>
    [] k = "ign" -> <<"i","g","n","o","r","e"," ","p","r","e","v","i","o","u","s"," ",
                      "i","n","s","t","r","u","c","t","i","o","n","s">>
    [] k = "Ign" -> <<"I","g","n","o","r","e"," ","P","r","e","v","i","o","u","s"," ",
                      "I","n","s","t","r","u","c","t","i","o","n","s">>
    [] k = "ssn" -> <<"1","2","3","-","4","5","-","6","7","8","9">>
    [] k = "phone" -> <<"(","5","5","5",")"," ","1","2","3","-","4","5","6","7">>
    [] k = "tax" -> <<"t","a","x">>
    [] k = "Credit" -> <<"C","r","e","d","i","t">>
    [] k = "kw4" -> <<"i","n","c","o","m","e"," ","t","a","x"," ","d","e","b","t"," ",
                      "l","o","a","n">>
    [] k = "adv" -> <<"g","u","a","r","a","n","t","e","e","d"," ","r","e","t","u","r","n","s">>
    [] k = "Adv" -> <<"G","u","a","r","a","n","t","e","e","d"," ","R","e","t","u","r","n","s">>
    \* the phrase inside address-like text
    [] k = "gaddr" -> <<"1"," ","g","u","a","r","a","n","t","e","e","d"," ","r","e","t","u",
                        "r","n","s"," ","S","t">>
    [] k = "fil" -> <<"[","F","I","L","T","E","R","E","D","]">>
    [] k = "red" -> <<"[","R","E","D","A","C","T","E","D","]">>
    [] k = "stub" -> <<"(","l","o","c","a","l",")"," ","P","r","o","c","e","s","s","e","d"," ",
                       "l","o","c","a","l","l","y",":"," ">>
    [] k = "trunc" -> <<"\n","[","R","e","s","p","o","n","s","e"," ",
                        "t","r","u","n","c","a","t","e","d","]">>
    \* the disclaimer sentence; "!!" stands for the two code points of the warning sign
    [] k = "disc" ->
      <<"\n","\n","!","!"," ","T","h","i","s"," ","i","s"," ","f","o","r"," ","i","n",
        "f","o","r","m","a","t","i","o","n","a","l"," ","p","u","r","p","o","s","e","s",
        " ","o","n","l","y"," ","a","n","d"," ","s","h","o","u","l","d"," ","n","o","t",
        " ","b","e"," ","c","o","n","s","i","d","e","r","e","d"," ","p","r","o","f","e",
        "s","s","i","o","n","a","l"," ","f","i","n","a","n","c","i","a","l"," ","a","d",
        "v","i","c","e",".">>
    \* the response_text of the error response of process_query
    [] k = "sorry" ->
      <<"I","'","m"," ","s","o","r","r","y",","," ","I","'","m"," ","u","n","a","b","l",
        "e"," ","t","o"," ","p","r","o","c","e","s","s"," ","y","o","u","r"," ","r","e",
        "q","u","e","s","t"," ","a","t"," ","t","h","e"," ","m","o","m","e","n","t",".",
        " ","P","l","e","a","s","e"," ","t","r","y"," ","a","g","a","i","n"," ","l","a",
        "t","e","r",".">>

Seg(k, n) == [k |-> k, n |-> n]

Full(k) == Seg(k, Len(Lit(k)))

NonWordChars == {" ", ".", "-", ":", "(", ")", "[", "]", "\n", "!", "'", ","}

IsWordChar(c) == c \notin NonWordChars

FirstChar(s) == IF s.k \in RunKinds THEN RunChar(s.k) ELSE Lit(s.k)[1]

LastChar(s) == IF s.k \in RunKinds THEN RunChar(s.k) ELSE Lit(s.k)[s.n]

Lower(c) ==
  CASE c = "F" -> "f" [] c = "I" -> "i" [] c = "L" -> "l" [] c = "T" -> "t"
    [] c = "E" -> "e" [] c = "R" -> "r" [] c = "D" -> "d" [] c = "A" -> "a"
    [] c = "C" -> "c" [] c = "P" -> "p" [] OTHER -> c

RECURSIVE TextLen(_)
TextLen(t) == IF t = <<>> THEN 0 ELSE Head(t).n + TextLen(Tail(t))

\* text[:m]
RECURSIVE Take(_, _)
Take(t, m) ==
  IF t = <<>> \/ m <= 0 THEN <<>>
  ELSE IF Head(t).n <= m THEN <<Head(t)>> \o Take(Tail(t), m - Head(t).n)
  ELSE <<Seg(Head(t).k, m)>>

\* the regex assertion \b in front of / behind segment i, which starts and
\* ends with a word character
BoundaryBefore(t, i) == i = 1 \/ ~IsWordChar(LastChar(t[i - 1]))

BoundaryAfter(t, i) == i = Len(t) \/ ~IsWordChar(FirstChar(t[i + 1]))

-----------------------------------------------------------------------------
(* AISecurityFilter: pattern sets *)

SensitivePatterns ==
  <<"account", "ssn", "nine_digits", "card", "routing", "phone", "phone_paren",
    "email", "address">>

\* whether segment i of t is a match of sensitive pattern p
SensitiveMatch(p, t, i) ==
  LET s == t[i]
      bounded == BoundaryBefore(t, i) /\ BoundaryAfter(t, i)
  IN CASE p = "account" -> s.k = "dig" /\ s.n >= 8 /\ s.n <= 17 /\ bounded
       [] p = "ssn" -> s.k = "ssn" /\ s.n = 11 /\ bounded
       [] p \in {"nine_digits", "routing"} -> s.k = "dig" /\ s.n = 9 /\ bounded
       [] p = "card" -> s.k = "dig" /\ s.n = 16 /\ bounded
       \* \(\d{3}\)\s?\d{3}-\d{4} has no \b
       [] p = "phone_paren" -> s.k = "phone" /\ s.n = 14
       \* \b\d+\s+[A-Za-z\s]+(?:Street|St|...)\b
       [] p = "address" -> s.k = "gaddr" /\ s.n = 23 /\ bounded
       [] OTHER -> FALSE

\* whether segment s is a match of some prompt-injection pattern:
\*   ignore\s+(?:previous|all|above|prior)\s+instructions?   and   eval\s*\(
\* (re.IGNORECASE: "Ign" is the phrase with capitals)
InjectionMatch(s) ==
  \/ s.k \in {"ign", "Ign"} /\ s.n >= 27
  \/ s.k = "eval" /\ s.n = 5

\* for pattern in self.prompt_injection_patterns: if pattern.search(...)
injection_detected(t) == \E i \in 1..Len(t) : InjectionMatch(t[i])

\* (a bug: only the pattern that triggered the detection is replaced)
FilterFirstPatternOnly(t) ==
  [i \in 1..Len(t) |->
     IF t[i].k \in {"ign", "Ign"} /\ InjectionMatch(t[i]) THEN Full("fil") ELSE t[i]]

\* pattern.sub("[FILTERED]", text) for every injection pattern
sanitize_injection_attempt(t) ==
  [i \in 1..Len(t) |-> IF InjectionMatch(t[i]) THEN Full("fil") ELSE t[i]]

\* one round of the masking loop: findall, count, sub("[REDACTED]")
MaskOne(p, t) ==
  LET hits == {i \in 1..Len(t) : SensitiveMatch(p, t, i)}
  IN [text |-> [i \in 1..Len(t) |-> IF i \in hits THEN Full("red") ELSE t[i]],
      count |-> Cardinality(hits)]

RECURSIVE MaskFrom(_, _, _)
MaskFrom(j, t, c) ==
  IF j > Len(SensitivePatterns) THEN [text |-> t, count |-> c]
  ELSE LET r == MaskOne(SensitivePatterns[j], t)
       IN MaskFrom(j + 1, r.text, c + r.count)

mask_sensitive_data(t) == MaskFrom(1, t, 0)

\* guaranteed\s+(?:returns?|profit) is the advice pattern of the alphabet
\* (re.IGNORECASE); in "gaddr" the phrase starts at the third character
contains_inappropriate_advice(t) ==
  \E i \in 1..Len(t) :
    \/ t[i].k \in {"adv", "Adv"} /\ t[i].n >= 17
    \/ t[i].k = "gaddr" /\ t[i].n >= 19

-----------------------------------------------------------------------------
(* Warnings and results *)

Warn(w, n) == [w |-> w, n |-> n]

WarnInputTruncated == Warn("Input truncated due to length limit", 0)
WarnInjection == Warn("Potential prompt injection detected", 0)
WarnMasked(n) == Warn("Masked N sensitive data patterns", n)
WarnOutputTruncated == Warn("Response truncated due to length limit", 0)
WarnLeak(n) == Warn("Filtered N sensitive data leaks", n)
WarnDisclaimer == Warn("Response contains disclaimer about financial advice", 0)
WarnProcessingError == Warn("Processing error occurred", 0)

Range(f) == {f[i] : i \in DOMAIN f}

NoText == <<>>

\* a text and its warnings, or the exception that left the operation
Returned(t, w) == [status |-> "ok", text |-> t, warnings |-> w]
Raised(e) == [status |-> e, text |-> NoText, warnings |-> <<>>]

-----------------------------------------------------------------------------
(* AISecurityFilter.sanitize_input.  A names, for each audit emission of   *)
(* the method, whether log_security_event returns (TRUE) or raises.        *)

SanitizeAudit == [injection : BOOLEAN, masked : BOOLEAN, failed : BOOLEAN]

\* except Exception: log INPUT_SANITIZATION_FAILED, raise SecurityException
SanitizeHandler(A) ==
  IF A.failed THEN Raised("SecurityException") ELSE Raised("Exception")

\* (a bug: one character too few)
TruncateOneShort(t) == Take(t, max_input_length - 1)

\* user_input[:self.max_input_length]
Truncate(t) == Take(t, max_input_length)

\* (a bug: masking runs on the text before it is neutralized)
SanitizeMasksFirst(user_input, A) ==
  LET long == TextLen(user_input) > max_input_length
      t1 == IF long THEN Truncate(user_input) ELSE user_input
      w1 == IF long THEN <<WarnInputTruncated>> ELSE <<>>
      m == mask_sensitive_data(t1)
      inj == injection_detected(m.text)
      t2 == IF inj THEN sanitize_injection_attempt(m.text) ELSE m.text
      w2 == IF inj THEN Append(w1, WarnInjection) ELSE w1
      w3 == IF m.count > 0 THEN Append(w2, WarnMasked(m.count)) ELSE w2
  IN IF inj /\ ~A.injection THEN SanitizeHandler(A)
     ELSE IF m.count > 0 /\ ~A.masked THEN SanitizeHandler(A)
     ELSE Returned(t2, w3)

sanitize_input(user_input, A) ==
  LET long == TextLen(user_input) > max_input_length
      t1 == IF long THEN Truncate(user_input) ELSE user_input
      w1 == IF long THEN <<WarnInputTruncated>> ELSE <<>>
      inj == injection_detected(t1)
      t2 == IF inj THEN sanitize_injection_attempt(t1) ELSE t1
      w2 == IF inj THEN Append(w1, WarnInjection) ELSE w1
      m == mask_sensitive_data(t2)
      w3 == IF m.count > 0 THEN Append(w2, WarnMasked(m.count)) ELSE w2
  IN IF inj /\ ~A.injection THEN SanitizeHandler(A)
     ELSE IF m.count > 0 /\ ~A.masked THEN SanitizeHandler(A)
     ELSE Returned(m.text, w3)


-----------------------------------------------------------------------------
(* AISecurityFilter.filter_output *)

FilterAudit == [leak : BOOLEAN, failed : BOOLEAN]

\* except Exception: log OUTPUT_FILTERING_FAILED, raise SecurityException
FilterHandler(A) ==
  IF A.failed THEN Raised("SecurityException") ELSE Raised("Exception")

\* (a bug: a response of exactly max_output_length characters is truncated)
FilterTruncatesAtLimit(ai_response, A) ==
  LET long == TextLen(ai_response) >= max_output_length
      t1 == IF long THEN Take(ai_response, max_output_length) \o <<Full("trunc")>>
            ELSE ai_response
      w1 == IF long THEN <<WarnOutputTruncated>> ELSE <<>>
      m == mask_sensitive_data(t1)
      w2 == IF m.count > 0 THEN Append(w1, WarnLeak(m.count)) ELSE w1
      advice == contains_inappropriate_advice(m.text)
      t3 == IF advice THEN m.text \o <<Full("disc")>> ELSE m.text
      w3 == IF advice THEN Append(w2, WarnDisclaimer) ELSE w2
  IN IF m.count > 0 /\ ~A.leak THEN FilterHandler(A)
     ELSE Returned(t3, w3)

filter_output(ai_response, A) ==
  LET long == TextLen(ai_response) > max_output_length
      t1 == IF long THEN Take(ai_response, max_output_length) \o <<Full("trunc")>>
            ELSE ai_response
      w1 == IF long THEN <<WarnOutputTruncated>> ELSE <<>>
      m == mask_sensitive_data(t1)
      w2 == IF m.count > 0 THEN Append(w1, WarnLeak(m.count)) ELSE w1
      advice == contains_inappropriate_advice(m.text)
      t3 == IF advice THEN m.text \o <<Full("disc")>> ELSE m.text
      w3 == IF advice THEN Append(w2, WarnDisclaimer) ELSE w2
  IN IF m.count > 0 /\ ~A.leak THEN FilterHandler(A)
     ELSE Returned(t3, w3)

-----------------------------------------------------------------------------
(* Contexts: mappings from keys to values.  NotAMapping stands for a value *)
(* that is no dict (its key test and .items() raise).                      *)

ContextKeys ==
  {"user_id", "account_id", "transaction_id", "transaction_data", "account_info",
   "personal_info"}

Tx == [amount |-> "12", category |-> "food", date |-> "d1", type |-> "debit",
       description |-> "cafe"]

\* a transaction_data list whose element is no dict
NotADict == [not_a_dict |-> "x"]

GoodTransactions == <<Tx>>
BadTransactions == <<NotADict>>

EmptyContext == [k \in {} |-> "x"]

NotAMapping == [k \in {"<not a mapping>"} |-> "x"]

IsMapping(c) == c # NotAMapping

ContextOf(S, good) ==
  [k \in S |->
     CASE k = "transaction_data" -> IF good THEN GoodTransactions ELSE BadTransactions
       [] k = "user_id" -> "u1"
       [] OTHER -> k]

Contexts ==
  {ContextOf(S, TRUE) : S \in SUBSET ContextKeys}
    \cup {ContextOf(S, FALSE) : S \in {T \in SUBSET ContextKeys : "transaction_data" \in T}}
    \cup {NotAMapping}

-----------------------------------------------------------------------------
(* PrivacyManager._calculate_sensitivity_score, in tenths *)

sensitive_keywords ==
  <<<<"a","c","c","o","u","n","t">>,
    <<"b","a","l","a","n","c","e">>,
    <<"i","n","c","o","m","e">>,
    <<"s","a","l","a","r","y">>,
    <<"d","e","b","t">>,
    <<"l","o","a","n">>,
    <<"c","r","e","d","i","t">>,
    <<"s","s","n">>,
    <<"s","o","c","i","a","l"," ","s","e","c","u","r","i","t","y">>,
    <<"t","a","x">>,
    <<"i","n","v","e","s","t","m","e","n","t">>>>

Contains(s, w) ==
  \E i \in 1..(Len(s) - Len(w) + 1) : SubSeq(s, i, i + Len(w) - 1) = w

LitKinds ==
  {"eval", "ign", "ssn", "tax", "kw4", "adv", "fil", "red", "stub", "trunc", "disc", "sorry",
   "Credit", "Ign", "phone", "Adv", "gaddr"}

\* user_input.lower() of the first n characters of literal k
LowerPrefix(k, n) == [c \in 1..n |-> Lower(Lit(k)[c])]

\* the keywords found in the first n characters of literal k
KeywordTable ==
  [k \in LitKinds |->
     [n \in 0..Len(Lit(k)) |->
        {j \in 1..Len(sensitive_keywords) :
           Contains(LowerPrefix(k, n), sensitive_keywords[j])}]]

\* keyword in user_input.lower(); no keyword fits in a run or crosses segments
KeywordIn(j, t) ==
  \E i \in 1..Len(t) : t[i].k \notin RunKinds /\ j \in KeywordTable[t[i].k][t[i].n]

\* (a bug: a keyword counts once for every segment it occurs in)
CountEveryMatch(t) ==
  Cardinality({p \in (1..Len(sensitive_keywords)) \X (1..Len(t)) :
                 KeywordIn(p[1], <<t[p[2]]>>)})

KeywordHits(t) == Cardinality({j \in 1..Len(sensitive_keywords) : KeywordIn(j, t)})

Min(a, b) == IF a <= b THEN a ELSE b

calculate_sensitivity_score(t, c) ==
  LET keys == IF c = EmptyContext THEN {} ELSE DOMAIN c
      score == KeywordWeight * KeywordHits(t)
                 + (IF "transaction_data" \in keys THEN TransactionDataWeight ELSE 0)
                 + (IF "account_info" \in keys THEN AccountInfoWeight ELSE 0)
                 + (IF "personal_info" \in keys THEN PersonalInfoWeight ELSE 0)
  IN Min(score, 10)

-----------------------------------------------------------------------------
(* PrivacyManager.should_use_local_processing *)

None == "None"

\* the users table: ai_data_consent of the stored users (u3 is not stored)
ai_data_consent == [u \in {"u1", "u2"} |-> u = "u2"]

RouteAudit == [forced : BOOLEAN, selected : BOOLEAN]

Decision(d, how) == [decision |-> d, how |-> how]

\* (a bug: the handler fails open)
FallbackToCloud == Decision(FALSE, "fallback")

\* except Exception (outer): default to local processing for safety
LocalProcessingFallback == Decision(TRUE, "fallback")

\* (a bug: the threshold itself is routed to the cloud)
StrictThresholdDecision(t, c, A) ==
  IF ~IsMapping(c) THEN LocalProcessingFallback
  ELSE LET use_local == calculate_sensitivity_score(t, c) > local_processing_threshold
       IN IF use_local /\ ~A.selected THEN LocalProcessingFallback
          ELSE Decision(use_local, "score")

\* lines 245-261: score, threshold, LOCAL_PROCESSING_SELECTED audit event
score_decision(t, c, A) ==
  IF ~IsMapping(c) THEN LocalProcessingFallback
  ELSE LET use_local == calculate_sensitivity_score(t, c) >= local_processing_threshold
       IN IF use_local /\ ~A.selected THEN LocalProcessingFallback
          ELSE Decision(use_local, "score")

\* (a bug: a failed lookup forces local processing)
LookupFailureForcesLocal(t, c, A) == Decision(TRUE, "fallback")

\* except Exception (inner): the failed lookup is logged at debug level and
\* the method goes on to scoring
consent_lookup_failed(t, c, A) == score_decision(t, c, A)

\* lines 233-241: the row of the user, or None
consent_checked(row, t, c, A) ==
  IF row = None THEN score_decision(t, c, A)
  ELSE IF ai_data_consent[row] = FALSE
       THEN IF A.forced THEN Decision(TRUE, "consent")
            ELSE consent_lookup_failed(t, c, A)
       ELSE score_decision(t, c, A)

\* session.exec(select(DBUser).where(DBUser.id == user_id)).one_or_none()
one_or_none(u) == IF u \in DOMAIN ai_data_consent THEN u ELSE None

-----------------------------------------------------------------------------
(* PrivacyManager.anonymize_context *)

anonymization_enabled == TRUE

\* hashlib.sha256(identifier.encode()).hexdigest()[:16]
hash_identifier(v) == "sha256_16:" \o v

Get(tx, f) == IF f \in DOMAIN tx THEN tx[f] ELSE None

\* (a bug: the description of a transaction is kept)
KeepDescription(txs) == txs

anonymize_transactions(txs) ==
  [i \in 1..Len(txs) |->
     [amount |-> Get(txs[i], "amount"), category |-> Get(txs[i], "category"),
      date |-> Get(txs[i], "date"), type |-> Get(txs[i], "type")]]

\* (a bug: a malformed transaction_data value goes unnoticed)
TransactionsNeverRaise(txs) == FALSE

\* transaction.get raises for an element that is no dict
TransactionsRaise(txs) == \E i \in 1..Len(txs) : txs[i] = NotADict

\* (a bug: personal_info is kept like any other key)
KeepEveryKey(c) == DOMAIN c

\* the per-key policy of the loop at lines 302-314
AnonymizedKeys(c) == DOMAIN c \ {"personal_info"}

AnonymizedValue(c, k) ==
  CASE k \in {"user_id", "account_id", "transaction_id"} -> hash_identifier(c[k])
    [] k = "transaction_data" -> anonymize_transactions(c[k])
    [] OTHER -> c[k]

\* (a bug: personal_info is removed from the caller's mapping in place)
PopPersonalInfo(c) ==
  IF c = NotAMapping THEN c ELSE [k \in DOMAIN c \ {"personal_info"} |-> c[k]]

\* the caller's mapping after the call: the loop at lines 302-314 reads
\* context.items() and writes to anonymized_context only, and
\* _anonymize_transactions appends new dicts to a new list
ContextAfterCall(c) == c

\* whether the returned object is the caller's mapping: only the early return
\* of line 297 returns it, lines 300 and 327 create new dicts
ReturnsInputObject == ~anonymization_enabled

\* ok: whether the CONTEXT_ANONYMIZED audit emission returns
anonymize_context(c, ok) ==
  IF ~anonymization_enabled THEN c
  ELSE IF ~IsMapping(c) THEN EmptyContext
  ELSE IF "transaction_data" \in DOMAIN c /\ TransactionsRaise(c["transaction_data"])
       THEN EmptyContext
  ELSE IF ~ok THEN EmptyContext
  ELSE [k \in AnonymizedKeys(c) |-> AnonymizedValue(c, k)]

-----------------------------------------------------------------------------
(* Inputs *)

InputSegs ==
  {Seg("a", 1), Seg("a", 9997), Seg("dot", 1), Seg("dig", 8),
   Full("eval"), Full("ign"), Full("Ign"), Full("ssn"), Full("tax"), Full("kw4")}

DigitKinds == {"dig", "ssn", "gaddr", "phone"}

\* no digit segment next to another one, so that a digit run is one segment
WellFormed(t) ==
  \A i \in 1..(Len(t) - 1) : ~(t[i].k \in DigitKinds /\ t[i + 1].k \in DigitKinds)

Texts ==
  {t \in UNION {[1..n -> InputSegs] : n \in 0..MaxSegs} : WellFormed(t)}

\* texts of direct calls of _mask_sensitive_data
MaskSegs ==
  {Seg("a", 1), Seg("dot", 1), Seg("dig", 8), Seg("dig", 9), Seg("dig", 14),
   Full("ssn"), Full("phone"), Full("tax")}

\* the digits a segment starts and ends with
LeadingDigits(s) == CASE s.k = "dig" -> s.n [] s.k = "ssn" -> 3 [] OTHER -> 0

TrailingDigits(s) ==
  CASE s.k = "dig" -> s.n [] s.k \in {"ssn", "phone"} -> 4 [] OTHER -> 0

\* digits that meet across two segments form a run of more than 17, which
\* no pattern matches, so that every match is a whole segment
MaskWellFormed(t) ==
  \A i \in 1..(Len(t) - 1) :
    \/ TrailingDigits(t[i]) = 0
    \/ LeadingDigits(t[i + 1]) = 0
    \/ TrailingDigits(t[i]) + LeadingDigits(t[i + 1]) > 17

MaskTexts ==
  {t \in UNION {[1..n -> MaskSegs] : n \in 0..MaxSegs} : MaskWellFormed(t)}

\* texts a response generator hands to filter_output
AgentTexts == {<<Seg("a", 1)>>, <<Seg("dig", 8)>>, <<Full("adv")>>}

OutputSegs ==
  {Seg("a", 1), Seg("a", 10), Seg("a", 49990), Seg("a", 50001), Seg("dot", 1),
   Seg("dig", 8), Full("ssn"), Full("phone"), Full("adv"), Full("Adv"), Full("gaddr")}

OutputTexts ==
  {t \in UNION {[1..n -> OutputSegs] : n \in 0..MaxSegs} : WellFormed(t)}

\* texts and contexts of the requests that are routed (should_use_local_processing,
\* process_query)
RequestSegs == {Seg("a", 9997), Seg("dig", 8), Full("eval"), Full("tax"), Full("kw4")}

RequestTexts ==
  {t \in UNION {[1..n -> RequestSegs] : n \in 0..MaxSegs} : WellFormed(t)}

RequestContexts ==
  {ContextOf(S, TRUE) :
     S \in {{}, {"user_id"}, {"personal_info"}, {"account_info", "transaction_data"},
            {"personal_info", "transaction_data"}}}
    \cup {ContextOf({"transaction_data"}, FALSE), NotAMapping}

\* texts of direct calls of should_use_local_processing: the routed texts
\* and "income tax" (two keywords)
RouteTexts == RequestTexts \cup {<<Seg("kw4", 10)>>}

\* texts of direct calls of _calculate_sensitivity_score
ScoreSegs == {Seg("a", 1), Full("tax"), Seg("kw4", 10), Full("kw4"), Full("Credit")}

ScoreTexts == UNION {[1..n -> ScoreSegs] : n \in 0..MaxSegs}

\* user ids: "default" is the default argument of process_query
Users == {"default", "u1", "u2", "u3"}

-----------------------------------------------------------------------------
(* UnifiedFinancialAgent.process_query: helpers *)

\* user_id if user_id and user_id != "default" else None
user_id_for_privacy(u) == IF u # "" /\ u # "default" THEN u ELSE None

\* generate_local_response: the stub of the adapter
local_stub(t) == <<Full("stub")>> \o Take(t, StubPreview)

\* NLPProcessingModule.intent_keywords
intent_keywords ==
  <<[query_type |-> "transaction_analysis",
     keywords |-> <<<<"t","r","a","n","s","a","c","t","i","o","n","s">>,
                    <<"s","p","e","n","d","i","n","g">>,
                    <<"e","x","p","e","n","s","e","s">>,
                    <<"p","u","r","c","h","a","s","e","s">>,
                    <<"p","a","y","m","e","n","t","s">>>>],
    [query_type |-> "budget_advice",
     keywords |-> <<<<"b","u","d","g","e","t">>,
                    <<"b","u","d","g","e","t","i","n","g">>,
                    <<"p","l","a","n">>,
                    <<"a","l","l","o","c","a","t","e">>,
                    <<"d","i","s","t","r","i","b","u","t","e">>>>],
    [query_type |-> "spending_insights",
     keywords |-> <<<<"i","n","s","i","g","h","t","s">>,
                    <<"a","n","a","l","y","s","i","s">>,
                    <<"p","a","t","t","e","r","n","s">>,
                    <<"t","r","e","n","d","s">>,
                    <<"s","u","m","m","a","r","y">>>>],
    [query_type |-> "bill_tracking",
     keywords |-> <<<<"b","i","l","l","s">>,
                    <<"d","u","e">>,
                    <<"p","a","y","m","e","n","t","s">>,
                    <<"u","t","i","l","i","t","i","e","s">>,
                    <<"s","u","b","s","c","r","i","p","t","i","o","n","s">>>>],
    [query_type |-> "savings_recommendations",
     keywords |-> <<<<"s","a","v","e">>,
                    <<"s","a","v","i","n","g","s">>,
                    <<"i","n","v","e","s","t">>,
                    <<"e","m","e","r","g","e","n","c","y"," ","f","u","n","d">>,
                    <<"g","o","a","l","s">>>>]>>

\* the keywords of intent q found in the first n characters of literal k
IntentTable ==
  [k \in LitKinds |->
     [n \in 0..Len(Lit(k)) |->
        [q \in 1..Len(intent_keywords) |->
           {j \in 1..Len(intent_keywords[q].keywords) :
              Contains(LowerPrefix(k, n), intent_keywords[q].keywords[j])}]]]

\* keyword in user_input_lower; no keyword fits in a run or crosses segments
IntentHits(q, t) ==
  Cardinality({j \in 1..Len(intent_keywords[q].keywords) :
                 \E i \in 1..Len(t) :
                    t[i].k \notin RunKinds /\ j \in IntentTable[t[i].k][t[i].n][q]})

Max(S) == CHOOSE x \in S : \A y \in S : y <= x

\* classify_query: the confidence, in tenths: score / len(keywords) of the
\* best intent, 0.5 when no keyword occurs
classify_query(t) ==
  LET scores == {(10 * IntentHits(q, t)) \div Len(intent_keywords[q].keywords) :
                   q \in {p \in 1..Len(intent_keywords) : IntentHits(p, t) > 0}}
  IN IF scores = {} THEN GeneralConfidence ELSE Max(scores)

\* confidence: in tenths
AgentResponse(t, w, l, c) ==
  [status |-> "ok", text |-> t, warnings |-> w, local_processing |-> l, confidence |-> c]

ErrorResponse ==
  AgentResponse(<<Full("sorry")>>, <<WarnProcessingError>>, TRUE, ErrorConfidence)

\* local path, lines 355-380: warnings=[] extended by the output warnings
LocalWarnings(input_warnings, output_warnings) == output_warnings

\* lines 399-400: response.warnings.extend(input_warnings + output_warnings)
InternalWarnings(input_warnings, output_warnings) == input_warnings \o output_warnings

-----------------------------------------------------------------------------
(* State *)

Idle == [status |-> "none", text |-> NoText, warnings |-> <<>>]

NoArgs == [text |-> NoText, context |-> EmptyContext, user_id |-> None]

NoRoute == [state |-> "none", lookup |-> "none", d |-> Decision(FALSE, "none"), waited |-> 0]

\* the state of a call of anonymize_context: the returned mapping, whether the
\* CONTEXT_ANONYMIZED event was written, the caller's mapping after the call
\* and whether the returned object is the caller's mapping
NoAnon ==
  [status |-> "none", context |-> EmptyContext, logged |-> FALSE,
   input |-> EmptyContext, same_object |-> FALSE]

\* the CONTEXT_ANONYMIZED emission of lines 316-320 is reached after the loop
\* and returns when ok
AuditWritten(c, ok) ==
  /\ IsMapping(c)
  /\ ~("transaction_data" \in DOMAIN c /\ TransactionsRaise(c["transaction_data"]))
  /\ ok

Anonymized(c, ok) ==
  [status |-> "ok", context |-> anonymize_context(c, ok), logged |-> AuditWritten(c, ok),
   input |-> ContextAfterCall(c), same_object |-> ReturnsInputObject]

\* local, internal: calls of the local adapter and of _process_internal;
\* filter_raised: whether a filter_output of the request raised
NoAgent ==
  [local |-> 0, internal |-> 0, text |-> NoText, context |-> EmptyContext,
   filter_raised |-> FALSE]

\* a process_query coroutine that has not been called, and its local variables
NoCall ==
  [pc |-> "idle", args |-> NoArgs, response |-> NoText, ret |-> Idle, overlapped |-> FALSE]

NoFrame == [san |-> Idle, d |-> Decision(FALSE, "none")]

\* no process_query request is in flight
NoRequests ==
  [calls |-> [i \in 1..MaxRequests |-> NoCall], frames |-> [i \in 1..MaxRequests |-> NoFrame]]

\* AuthenticationManager.__init__: failed_attempts = {}, lockout_times = {}
NewAuthenticationManager ==
  [failed_attempts |-> [u \in {} |-> 0], lockout_times |-> [u \in {} |-> 0]]

\* AuthService.__init__: sessions = {}
NoSessions == [s \in {} |-> None]

\* the tables after create_all
EmptyTables == [transactions |-> {}, conversations |-> {}, messages |-> <<>>]

NoReply == [op |-> "none", status |-> "none"]

Init ==
  /\ op = "idle"
  /\ pc = "idle"
  /\ args = NoArgs
  /\ ret = Idle
  /\ san = Idle
  /\ route = NoRoute
  /\ anon = NoAnon
  /\ agent = NoAgent
  /\ out = Idle
  /\ reqs = NoRequests
  /\ clock = 0
  /\ auth_manager = NewAuthenticationManager
  /\ sessions = NoSessions
  /\ tokens = {}
  /\ db = EmptyTables
  /\ reply = NoReply
  /\ failed_logins = 0

-----------------------------------------------------------------------------
(* Direct calls of the four operations of the security layer *)

CallSanitize ==
  /\ pc = "idle"
  /\ \E t \in Texts, A \in SanitizeAudit :
       /\ args' = [text |-> t, context |-> EmptyContext, user_id |-> "u1"]
       /\ ret' = sanitize_input(t, A)
  /\ op' = "sanitize_input"
  /\ pc' = "done"
  /\ UNCHANGED <<san, route, anon, agent, out>>
  /\ UNCHANGED service_state

CallFilter ==
  /\ pc = "idle"
  /\ \E t \in OutputTexts, A \in FilterAudit :
       /\ args' = [text |-> t, context |-> EmptyContext, user_id |-> "u1"]
       /\ ret' = filter_output(t, A)
  /\ op' = "filter_output"
  /\ pc' = "done"
  /\ UNCHANGED <<san, route, anon, agent, out>>
  /\ UNCHANGED service_state

CallAnonymize ==
  /\ pc = "idle"
  /\ \E c \in Contexts, ok \in BOOLEAN :
       /\ args' = [text |-> NoText, context |-> c, user_id |-> None]
       /\ anon' = Anonymized(c, ok)
  /\ op' = "anonymize_context"
  /\ pc' = "done"
  /\ UNCHANGED <<ret, san, route, agent, out>>
  /\ UNCHANGED service_state

\* what _mask_sensitive_data returns: (text, masked_count)
Masked(m) == [status |-> "ok", text |-> m.text, warnings |-> <<>>, count |-> m.count]

CallMask ==
  /\ pc = "idle"
  /\ \E t \in MaskTexts :
       /\ args' = [text |-> t, context |-> EmptyContext, user_id |-> None]
       /\ ret' = Masked(mask_sensitive_data(t))
  /\ op' = "_mask_sensitive_data"
  /\ pc' = "masked"
  /\ UNCHANGED <<san, route, anon, agent, out>>
  /\ UNCHANGED service_state

\* _mask_sensitive_data applied to the text it returned
MaskAgain ==
  /\ op = "_mask_sensitive_data"
  /\ pc = "masked"
  /\ out' = Masked(mask_sensitive_data(ret.text))
  /\ pc' = "done"
  /\ UNCHANGED <<op, args, ret, san, route, anon, agent>>
  /\ UNCHANGED service_state

\* the score a direct call of _calculate_sensitivity_score returns
Scored(n) == [status |-> "ok", text |-> NoText, warnings |-> <<>>, score |-> n]

\* 'transaction_data' in context raises for a context that is no container
CallScore ==
  /\ pc = "idle"
  /\ \E t \in ScoreTexts, c \in Contexts :
       /\ args' = [text |-> t, context |-> c, user_id |-> None]
       /\ ret' = IF IsMapping(c) THEN Scored(calculate_sensitivity_score(t, c))
                 ELSE Raised("TypeError")
  /\ op' = "_calculate_sensitivity_score"
  /\ pc' = "done"
  /\ UNCHANGED <<san, route, anon, agent, out>>
  /\ UNCHANGED service_state

CallShouldUseLocal ==
  /\ pc = "idle"
  /\ \E t \in RouteTexts, c \in RequestContexts, u \in (Users \ {"default"}) \cup {None} :
       args' = [text |-> t, context |-> c, user_id |-> u]
  /\ op' = "should_use_local_processing"
  /\ pc' = "route"
  /\ UNCHANGED <<ret, san, route, anon, agent, out>>
  /\ UNCHANGED service_state

-----------------------------------------------------------------------------
(* should_use_local_processing, called directly or by process_query *)

RouteText == IF op = "process_query" THEN san.text ELSE args.text

RouteUser ==
  IF op = "process_query" THEN user_id_for_privacy(args.user_id) ELSE args.user_id

AfterRoute == IF op = "process_query" THEN "routed" ELSE "done"

Decided(lookup, d) ==
  [state |-> "decided", lookup |-> lookup, d |-> d, waited |-> route.waited]

\* (a bug: the connection waits for a lock without limit)
NeverTimesOut(w) == FALSE

\* the lock wait of the connection ends after busy_timeout seconds
BusyTimedOut(w) == w >= busy_timeout

\* if user_id: ... the method reaches the query of the users table (which is
\* free, or locked by another connection), or goes straight to scoring
RouteBegin ==
  /\ pc = "route"
  /\ IF RouteUser = None \/ RouteUser = ""
     THEN /\ \E A \in RouteAudit :
               route' = Decided("skipped", score_decision(RouteText, args.context, A))
          /\ pc' = AfterRoute
     ELSE /\ \E s \in {"pending", "locked"} :
               route' = [state |-> s, lookup |-> "none", d |-> Decision(FALSE, "none"),
                         waited |-> 0]
          /\ pc' = "consent_lookup"
  /\ UNCHANGED <<op, args, ret, san, anon, agent, out>>
  /\ UNCHANGED service_state

\* lines 230-241 and 242: the users table answers (a row or None) or the
\* query raises
ConsentLookupReturns ==
  /\ pc = "consent_lookup"
  /\ route.state = "pending"
  /\ \E A \in RouteAudit :
       \/ route' = Decided(IF one_or_none(RouteUser) = None THEN "missing" ELSE "row",
                           consent_checked(one_or_none(RouteUser), RouteText, args.context, A))
       \/ route' = Decided("error", consent_lookup_failed(RouteText, args.context, A))
  /\ pc' = AfterRoute
  /\ UNCHANGED <<op, args, ret, san, anon, agent, out>>
  /\ UNCHANGED service_state

\* the other connection releases its lock, at any time or never
LockReleased ==
  /\ pc = "consent_lookup"
  /\ route.state = "locked"
  /\ route' = [route EXCEPT !.state = "pending"]
  /\ UNCHANGED <<op, pc, args, ret, san, anon, agent, out>>
  /\ UNCHANGED service_state

\* the query waits for the lock; the wait lasts busy_timeout seconds at most
BusyWait ==
  /\ pc = "consent_lookup"
  /\ route.state = "locked"
  /\ ~BusyTimedOut(route.waited)
  /\ route' = [route EXCEPT !.waited = busy_timeout]
  /\ UNCHANGED <<op, pc, args, ret, san, anon, agent, out>>
  /\ UNCHANGED service_state

\* the wait is over: the query raises "database is locked", caught at line 242
LookupTimesOut ==
  /\ pc = "consent_lookup"
  /\ route.state = "locked"
  /\ BusyTimedOut(route.waited)
  /\ \E A \in RouteAudit :
       route' = Decided("error", consent_lookup_failed(RouteText, args.context, A))
  /\ pc' = AfterRoute
  /\ UNCHANGED <<op, args, ret, san, anon, agent, out>>
  /\ UNCHANGED service_state

-----------------------------------------------------------------------------
(* UnifiedFinancialAgent.process_query *)

\* lines 336-340: the call and sanitize_input
ProcessQuery ==
  /\ pc = "idle"
  /\ \E t \in RequestTexts, c \in RequestContexts, u \in Users, A \in SanitizeAudit :
       /\ args' = [text |-> t, context |-> c, user_id |-> u]
       /\ san' = sanitize_input(t, A)
       /\ pc' = IF san'.status = "ok" THEN "route" ELSE "except"
  /\ op' = "process_query"
  /\ UNCHANGED <<ret, route, anon, agent, out>>
  /\ UNCHANGED service_state

\* what filter_output returned for the response r of the generator or agent
Filtered(f, r) ==
  [status |-> f.status, text |-> f.text, warnings |-> f.warnings, response |-> r]

\* (a bug: the generators get the text the caller sent)
RawUserInput == args.text

\* the local variable sanitized_input of lines 338, 352 and 391
sanitized_input == san.text

\* (a bug: the agent gets the context the caller sent)
OriginalContext == args.context

\* lines 349-384: the local path; any exception in it is swallowed and the
\* method goes on at line 386
LocalPath ==
  /\ op = "process_query"
  /\ pc = "routed"
  /\ route.d.decision
  /\ \E local_resp \in {local_stub(san.text)} \cup AgentTexts,
        A \in FilterAudit, logged \in BOOLEAN :
       LET f == filter_output(local_resp, A)
       IN /\ agent' = [agent EXCEPT !.local = 1, !.text = sanitized_input,
                                    !.context = args.context,
                                    !.filter_raised = (f.status # "ok")]
          /\ IF f.status = "ok" /\ logged
             THEN /\ out' = Filtered(f, local_resp)
                  /\ ret' = AgentResponse(f.text, LocalWarnings(san.warnings, f.warnings),
                                          TRUE, LocalConfidence)
                  /\ pc' = "done"
             ELSE /\ UNCHANGED <<ret, out>>
                  /\ pc' = "internal"
  /\ UNCHANGED <<op, args, san, route, anon>>
  /\ UNCHANGED service_state

\* lines 386-388: if not use_local and context: anonymize_context
CloudPath ==
  /\ op = "process_query"
  /\ pc = "routed"
  /\ ~route.d.decision
  /\ IF args.context # EmptyContext
     THEN \E ok \in BOOLEAN :
            anon' = Anonymized(args.context, ok)
     ELSE anon' = anon
  /\ pc' = "internal"
  /\ UNCHANGED <<op, args, ret, san, route, agent, out>>
  /\ UNCHANGED service_state

\* the local variable context at line 391
CurrentContext == IF anon.status = "ok" THEN anon.context ELSE args.context

\* lines 391-418: _process_internal, filter_output, the response
Internal ==
  /\ op = "process_query"
  /\ pc = "internal"
  /\ \/ \* context.get of a handler raises on a value that is no dict
        /\ ~IsMapping(CurrentContext)
        /\ agent' = [agent EXCEPT !.internal = 1, !.text = sanitized_input,
                                  !.context = CurrentContext]
        /\ pc' = "except"
        /\ UNCHANGED <<ret, out>>
     \/ \E r \in AgentTexts, A \in FilterAudit, logged \in BOOLEAN :
          LET f == filter_output(r, A)
          IN /\ agent' = [agent EXCEPT !.internal = 1, !.text = sanitized_input,
                                       !.context = CurrentContext,
                                       !.filter_raised = (@ \/ f.status # "ok")]
             /\ IF f.status = "ok" /\ logged
                THEN /\ out' = Filtered(f, r)
                     /\ ret' = AgentResponse(f.text,
                                             InternalWarnings(san.warnings, f.warnings),
                                             route.d.decision, classify_query(san.text))
                     /\ pc' = "done"
                ELSE /\ UNCHANGED <<ret, out>>
                     /\ pc' = "except"
  /\ UNCHANGED <<op, args, san, route, anon>>
  /\ UNCHANGED service_state

\* lines 420-438: log AI_QUERY_FAILED, return the safe error response
Except ==
  /\ op = "process_query"
  /\ pc = "except"
  /\ \E logged \in BOOLEAN :
       ret' = IF logged THEN ErrorResponse
              ELSE [status |-> "Exception", text |-> NoText, warnings |-> <<>>,
                    local_processing |-> TRUE, confidence |-> ErrorConfidence]
  /\ pc' = "done"
  /\ UNCHANGED <<op, args, san, route, anon, agent, out>>
  /\ UNCHANGED service_state

\* the caller takes the result; the next call starts from a clean slate
Finish ==
  /\ pc = "done"
  /\ op' = "idle"
  /\ pc' = "idle"
  /\ args' = NoArgs
  /\ ret' = Idle
  /\ san' = Idle
  /\ route' = NoRoute
  /\ anon' = NoAnon
  /\ agent' = NoAgent
  /\ out' = Idle
  /\ UNCHANGED service_state

Next ==
  \/ CallSanitize
  \/ CallFilter
  \/ CallAnonymize
  \/ CallMask
  \/ MaskAgain
  \/ CallScore
  \/ CallShouldUseLocal
  \/ RouteBegin
  \/ ConsentLookupReturns
  \/ LockReleased
  \/ BusyWait
  \/ LookupTimesOut
  \/ ProcessQuery
  \/ LocalPath
  \/ CloudPath
  \/ Internal
  \/ Except
  \/ Finish

Spec == Init /\ [][Next]_vars

\* sanitize_input alone, over all input texts
SanitizeNext == CallSanitize \/ Finish

SanitizeSpec == Init /\ [][SanitizeNext]_vars

\* filter_output alone, over all response texts
FilterNext == CallFilter \/ Finish

FilterSpec == Init /\ [][FilterNext]_vars

\* _mask_sensitive_data alone, applied once and then to its own result
MaskNext == CallMask \/ MaskAgain \/ Finish

MaskSpec == Init /\ [][MaskNext]_vars

\* anonymize_context alone, over all contexts
AnonNext == CallAnonymize \/ Finish

AnonSpec == Init /\ [][AnonNext]_vars

ScoreNext == CallScore \/ Finish

ScoreSpec == Init /\ [][ScoreNext]_vars

RouteNext ==
  \/ CallShouldUseLocal
  \/ RouteBegin
  \/ ConsentLookupReturns
  \/ LockReleased
  \/ BusyWait
  \/ LookupTimesOut
  \/ Finish

\* every step of the method itself is taken when it can be; the release of
\* the lock by the other connection is not
RouteSpec ==
  /\ Init
  /\ [][RouteNext]_vars
  /\ WF_vars(RouteBegin)
  /\ WF_vars(ConsentLookupReturns)
  /\ WF_vars(BusyWait)
  /\ WF_vars(LookupTimesOut)

-----------------------------------------------------------------------------
(* AuthenticationManager: progressive lockout; AuthService.authenticate_user *)

\* a dict after d[k] = v and after del d[k]
Put(d, k, v) == [x \in DOMAIN d \cup {k} |-> IF x = k THEN v ELSE d[x]]

Del(d, k) == [x \in DOMAIN d \ {k} |-> d[x]]

\* d.get(k, default)
GetOr(d, k, default) == IF k \in DOMAIN d THEN d[k] ELSE default

\* the users table in insertion order, and the PIN each user chose
StoredUsers == <<"u1", "u2">>

Pins == {"1234", "0000"}

ChosenPin == [u \in {"u1", "u2"} |-> IF u = "u1" THEN "1234" ELSE "0000"]

\* pwd_context.hash and pwd_context.verify (bcrypt; the salt is left out)
hash_pin(pin) == <<"bcrypt", pin>>

verify_pin(pin, hashed_pin) == hashed_pin = hash_pin(pin)

pin_hash == [u \in {"u1", "u2"} |-> hash_pin(ChosenPin[u])]

\* check_account_lockout: the answer and the manager afterwards; an expired
\* lockout is deleted and the counter of the user is set to 0
check_account_lockout(am, user_id, now) ==
  IF user_id \in DOMAIN am.lockout_times
  THEN IF now < am.lockout_times[user_id]
       THEN [locked |-> TRUE, am |-> am]
       ELSE [locked |-> FALSE,
             am |-> [failed_attempts |-> Put(am.failed_attempts, user_id, 0),
                     lockout_times |-> Del(am.lockout_times, user_id)]]
  ELSE [locked |-> FALSE, am |-> am]

\* record_failed_attempt
record_failed_attempt(am, user_id, now) ==
  LET n == GetOr(am.failed_attempts, user_id, 0) + 1
      counted == Put(am.failed_attempts, user_id, n)
  IN IF n >= SecondLockoutAttempts
     THEN [failed_attempts |-> counted,
           lockout_times |-> Put(am.lockout_times, user_id, now + SecondLockoutMinutes)]
     ELSE IF n >= FirstLockoutAttempts
     THEN [failed_attempts |-> counted,
           lockout_times |-> Put(am.lockout_times, user_id, now + FirstLockoutMinutes)]
     ELSE [failed_attempts |-> counted, lockout_times |-> am.lockout_times]

\* reset_failed_attempts
reset_failed_attempts(am, user_id) ==
  [failed_attempts |-> Del(am.failed_attempts, user_id),
   lockout_times |-> Del(am.lockout_times, user_id)]

\* what authenticate_user answered at time at: a user, None, or an exception
Login(status, user, at) == [op |-> "authenticate_user", status |-> status, user |-> user, at |-> at]

\* authenticate_user: session.exec(select(DBUser)) answers or raises; then
\* the lockout check, the PIN check and the bookkeeping of the attempt
AuthenticateUser ==
  /\ failed_logins < MaxFailedLogins
  /\ \E pin \in Pins, answered \in BOOLEAN :
       IF ~answered
       THEN /\ reply' = Login("AttributeError", None, clock)
            /\ UNCHANGED <<auth_manager, failed_logins>>
       ELSE LET db_user == Head(StoredUsers)
                c == check_account_lockout(auth_manager, db_user, clock)
            IN IF c.locked
               THEN /\ reply' = Login("HTTP_423_LOCKED", None, clock)
                    /\ auth_manager' = c.am
                    /\ UNCHANGED failed_logins
               ELSE IF ~verify_pin(pin, pin_hash[db_user])
               THEN /\ auth_manager' = record_failed_attempt(c.am, db_user, clock)
                    /\ reply' = Login("ok", None, clock)
                    /\ failed_logins' = failed_logins + 1
               ELSE /\ auth_manager' = reset_failed_attempts(c.am, db_user)
                    /\ reply' = Login("ok", db_user, clock)
                    /\ failed_logins' = 0
  /\ UNCHANGED <<reqs, clock, sessions, tokens, db>>
  /\ UNCHANGED security_state

\* time passes
Tick ==
  /\ clock + TickMinutes <= MaxClock
  /\ clock' = clock + TickMinutes
  /\ UNCHANGED <<reqs, auth_manager, sessions, tokens, db, reply, failed_logins>>
  /\ UNCHANGED security_state

AuthNext == AuthenticateUser \/ Tick

AuthSpec == Init /\ [][AuthNext]_vars

-----------------------------------------------------------------------------
(* AuthService: the session table and the tokens *)

\* str(uuid.uuid4()): an identifier no earlier call has drawn
SessionIds == 1..MaxSessions

uuid4(used) == CHOOSE i \in SessionIds \ used : \A j \in SessionIds \ used : i <= j

\* the payload create_user_session signs for both tokens
token_data(user, session_id, now) == [sub |-> user, session_id |-> session_id, iat |-> now]

\* create_access_token / create_refresh_token: the payload with its exp and type
create_access_token(data) ==
  [sub |-> data.sub, session_id |-> data.session_id, type |-> "access", signed |-> TRUE,
   exp |-> data.iat + ACCESS_TOKEN_EXPIRE_MINUTES]

create_refresh_token(data) ==
  [sub |-> data.sub, session_id |-> data.session_id, type |-> "refresh", signed |-> TRUE,
   exp |-> data.iat + REFRESH_TOKEN_EXPIRE_DAYS * 24 * 60]

\* a token signed with another key, carrying a session_id of the caller's choice
Forged(session_id) ==
  [sub |-> "u1", session_id |-> session_id, type |-> "access", signed |-> FALSE,
   exp |-> MaxClock + ACCESS_TOKEN_EXPIRE_MINUTES]

\* the tokens a client can present
PresentedTokens ==
  {create_access_token(d) : d \in tokens} \cup {create_refresh_token(d) : d \in tokens}
    \cup {Forged(i) : i \in SessionIds}

\* verify_token: jwt.decode checks the signature and exp; the set of the
\* payload, or the empty set for None
verify_token(token, now) == IF token.signed /\ now <= token.exp THEN {token} ELSE {}

\* (a bug: the session table is not consulted)
AnySession(session_id, table) == TRUE

\* line 198: session_id in self.sessions
SessionExists(session_id, table) == session_id \in DOMAIN table

\* (a bug: logout drops every session of the table)
DropAllSessions(table, session_id) == NoSessions

\* line 231: del self.sessions[session_id]
DropSession(table, session_id) == [x \in DOMAIN table \ {session_id} |-> table[x]]

SessionReply(o, status, user, session_id) ==
  [op |-> o, status |-> status, user |-> user, session_id |-> session_id]

\* create_user_session: sign the tokens, store the session
CreateUserSession ==
  /\ Cardinality(tokens) < MaxSessions
  /\ \E user \in {"u1", "u2"} :
       LET session_id == uuid4({d.session_id : d \in tokens})
       IN /\ tokens' = tokens \cup {token_data(user, session_id, clock)}
          /\ sessions' = Put(sessions, session_id, [user_id |-> user, last_activity |-> clock])
          /\ reply' = SessionReply("create_user_session", "ok", user, session_id)
  /\ UNCHANGED <<reqs, clock, auth_manager, db, failed_logins>>
  /\ UNCHANGED security_state

\* get_user_from_token: verify the token, look the session up, touch it,
\* read the user; the users table answers with a row, with no row, or raises
GetUserFromToken ==
  /\ \E token \in PresentedTokens, lookup \in {"row", "missing", "error"} :
       LET verified == verify_token(token, clock)
           payload == CHOOSE x \in verified : TRUE
       IN IF verified = {}
          THEN /\ reply' = SessionReply("get_user_from_token", "ok", None, token.session_id)
               /\ UNCHANGED sessions
          ELSE IF ~SessionExists(payload.session_id, sessions)
          THEN /\ reply' = SessionReply("get_user_from_token", "ok", None, payload.session_id)
               /\ UNCHANGED sessions
          ELSE /\ sessions' = IF payload.session_id \in DOMAIN sessions
                              THEN [sessions EXCEPT ![payload.session_id].last_activity = clock]
                              ELSE sessions
               /\ reply' = SessionReply("get_user_from_token", "ok",
                                        IF lookup = "row" THEN payload.sub ELSE None,
                                        payload.session_id)
  /\ UNCHANGED <<reqs, clock, auth_manager, tokens, db, failed_logins>>
  /\ UNCHANGED security_state

\* logout_user: the session is dropped when it is in the table
LogoutUser ==
  /\ \E session_id \in SessionIds, user_id \in {"u1", "u2"} :
       /\ sessions' = IF session_id \in DOMAIN sessions
                      THEN DropSession(sessions, session_id) ELSE sessions
       /\ reply' = SessionReply("logout_user", "ok", user_id, session_id)
  /\ UNCHANGED <<reqs, clock, auth_manager, tokens, db, failed_logins>>
  /\ UNCHANGED security_state

SessionNext == CreateUserSession \/ GetUserFromToken \/ LogoutUser \/ Tick

SessionSpec == Init /\ [][SessionNext]_vars

-----------------------------------------------------------------------------
(* routers/transactions.py: create, list, get, delete *)

\* a Python value with its type: == between a str and a UUID is False
Str(v) == [type |-> "str", value |-> v]

UUID(v) == [type |-> "UUID", value |-> v]

\* current_user.id: User.id = str(db_user.id)
CurrentUsers == {Str("u1"), Str("u2")}

TransactionIds == 1..MaxTransactions

Amounts == {-50, 20}

\* the row as the session loads it: the UUID columns come back as UUIDs
TransactionRow(id, user_id, amount) ==
  [id |-> UUID(id), user_id |-> UUID(user_id.value), amount |-> amount]

\* db.get(Transaction, transaction_id): the rows with that primary key
db_get(table, transaction_id) == {t \in table : t.id.value = transaction_id}

\* lines 55 and 68: txn.user_id != current_user.id is Python's comparison of
\* the loaded column with User.id
Owned(txn, current_user) == txn.user_id = current_user

\* WHERE transactions.user_id = :user_id, compared by the database
where_user_id(table, current_user) == {t \in table : t.user_id.value = current_user.value}

TransactionReply(o, status, user, id, rows) ==
  [op |-> o, status |-> status, user |-> user, id |-> id, rows |-> rows]

\* POST /transactions
CreateTransaction ==
  /\ Cardinality(db.transactions) < MaxTransactions
  /\ \E current_user \in CurrentUsers, amount \in Amounts :
       LET id == CHOOSE i \in TransactionIds :
                   /\ db_get(db.transactions, i) = {}
                   /\ \A j \in TransactionIds : db_get(db.transactions, j) = {} => i <= j
           db_txn == TransactionRow(id, current_user, amount)
       IN /\ db' = [db EXCEPT !.transactions = @ \cup {db_txn}]
          /\ reply' = TransactionReply("create_transaction", 201, current_user, id, {db_txn})
  /\ UNCHANGED <<reqs, clock, auth_manager, sessions, tokens, failed_logins>>
  /\ UNCHANGED security_state

\* GET /transactions: db.exec(stmt).all() answers, or raises because the
\* session has no method exec
ListTransactions ==
  /\ \E current_user \in CurrentUsers, answered \in BOOLEAN :
       reply' = IF answered
                THEN TransactionReply("list_transactions", 200, current_user, 0,
                                      where_user_id(db.transactions, current_user))
                ELSE TransactionReply("list_transactions", 500, current_user, 0, {})
  /\ UNCHANGED <<reqs, clock, auth_manager, sessions, tokens, db, failed_logins>>
  /\ UNCHANGED security_state

\* GET /transactions/{transaction_id}
GetTransaction ==
  /\ \E current_user \in CurrentUsers, transaction_id \in TransactionIds :
       LET found == db_get(db.transactions, transaction_id)
       IN reply' = IF found = {} \/ \A txn \in found : ~Owned(txn, current_user)
                   THEN TransactionReply("get_transaction", 404, current_user, transaction_id, {})
                   ELSE TransactionReply("get_transaction", 200, current_user, transaction_id,
                                         found)
  /\ UNCHANGED <<reqs, clock, auth_manager, sessions, tokens, db, failed_logins>>
  /\ UNCHANGED security_state

\* DELETE /transactions/{transaction_id}
DeleteTransaction ==
  /\ \E current_user \in CurrentUsers, transaction_id \in TransactionIds :
       LET found == db_get(db.transactions, transaction_id)
       IN IF found = {} \/ \A txn \in found : ~Owned(txn, current_user)
          THEN /\ reply' = TransactionReply("delete_transaction", 404, current_user,
                                            transaction_id, {})
               /\ UNCHANGED db
          ELSE /\ db' = [db EXCEPT !.transactions = @ \ found]
               /\ reply' = TransactionReply("delete_transaction", 204, current_user,
                                            transaction_id, {})
  /\ UNCHANGED <<reqs, clock, auth_manager, sessions, tokens, failed_logins>>
  /\ UNCHANGED security_state

TxnNext == CreateTransaction \/ ListTransactions \/ GetTransaction \/ DeleteTransaction

TxnSpec == Init /\ [][TxnNext]_vars

-----------------------------------------------------------------------------
(* ConversationService.create_message / get_conversation; chat_with_ai *)

\* the values uuid4() can draw for a conversation
ConversationIds == {<<"uuid", i>> : i \in 1..MaxConversations}

\* line 60 of ai_chat.py: f"conv_{current_user.id}_{timestamp}"
GeneratedConversationId(current_user, now) == Str(<<"conv", current_user.value, now>>)

\* the conversation_id a caller passes: one the route generated, or the id
\* of a stored conversation as create_message reported it
RequestedConversationIds ==
  {GeneratedConversationId(u, clock) : u \in CurrentUsers}
    \cup {Str(c.id.value) : c \in db.conversations}

\* WHERE conversations.id = :conversation_id AND conversations.user_id = :user_id
find_conversation(table, conversation_id, user_id) ==
  {c \in table : c.id.value = conversation_id.value /\ c.user_id.value = user_id.value}

\* EncryptionManager.__init__ leaves _fernet None and nothing calls
\* initialize_encryption
EncryptionInitialised == FALSE

\* lines 101-106: encrypt_data, or the plaintext when it raises
encrypt_data(content) == [cipher |-> EncryptionInitialised, text |-> content]

\* decrypt_data, or the stored content when decryption fails
decrypt_data(stored) == stored.text

\* Conversation(user_id=user_id): the id is the default uuid4()
NewConversation(table, user_id) ==
  LET id == CHOOSE i \in ConversationIds :
              /\ \A c \in table : c.id.value # i
              /\ \A j \in ConversationIds : (\A c \in table : c.id.value # j) => i[2] <= j[2]
  IN [id |-> UUID(id), user_id |-> UUID(user_id.value)]

\* create_message with the tables d: the tables afterwards.  The row keeps,
\* as requested, the conversation_id the call was made with (history)
create_message(d, conversation_id, user_id, sender, content, now) ==
  LET found == find_conversation(d.conversations, conversation_id, user_id)
      convo == IF found = {} THEN NewConversation(d.conversations, user_id)
               ELSE CHOOSE c \in found : TRUE
      msg == [conversation_id |-> convo.id, sender |-> sender,
              content |-> encrypt_data(content), timestamp |-> now,
              requested |-> conversation_id, user_id |-> user_id]
  IN [d EXCEPT !.conversations = @ \cup {convo}, !.messages = Append(@, msg)]

\* the messages of conversation id, in the order of rows (by timestamp)
RECURSIVE MessagesOf(_, _)
MessagesOf(rows, id) ==
  IF rows = <<>> THEN <<>>
  ELSE IF Head(rows).conversation_id = id
       THEN <<Head(rows)>> \o MessagesOf(Tail(rows), id)
       ELSE MessagesOf(Tail(rows), id)

\* get_conversation: None, or the messages of the conversation by timestamp
get_conversation(d, conversation_id, user_id) ==
  LET found == find_conversation(d.conversations, conversation_id, user_id)
  IN IF found = {} THEN [found |-> FALSE, messages |-> <<>>]
     ELSE [found |-> TRUE,
           messages |-> MessagesOf(d.messages, (CHOOSE c \in found : TRUE).id)]

ConversationReply(o, status, user, conversation_id, result) ==
  [op |-> o, status |-> status, user |-> user, conversation_id |-> conversation_id,
   result |-> result]

NoResult == [found |-> FALSE, messages |-> <<>>]

\* room for another message and, if it is needed, another conversation
Room(d, conversation_id, user_id) ==
  /\ Len(d.messages) < MaxMessages
  /\ \/ find_conversation(d.conversations, conversation_id, user_id) # {}
     \/ Cardinality(d.conversations) < MaxConversations

\* a call of create_message; session.exec answers or raises
CreateMessage ==
  /\ \E conversation_id \in RequestedConversationIds, user_id \in CurrentUsers,
        sender \in {"user", "ai"}, answered \in BOOLEAN :
       /\ Room(db, conversation_id, user_id)
       /\ IF answered
          THEN /\ db' = create_message(db, conversation_id, user_id, sender, "hello", clock)
               /\ reply' = ConversationReply("create_message", "ok", user_id, conversation_id,
                                             NoResult)
          ELSE /\ UNCHANGED db
               /\ reply' = ConversationReply("create_message", "AttributeError", user_id,
                                             conversation_id, NoResult)
  /\ UNCHANGED <<reqs, clock, auth_manager, sessions, tokens, failed_logins>>
  /\ UNCHANGED security_state

\* POST /chat without a conversation_id: the message of the user and the
\* response are stored under one generated conversation_id; a failure to
\* store is swallowed
ChatWithAI ==
  /\ \E current_user \in CurrentUsers, answered \in BOOLEAN :
       LET conversation_id == GeneratedConversationId(current_user, clock)
           first == IF answered
                    THEN create_message(db, conversation_id, current_user, "user", "hello",
                                        clock)
                    ELSE db
       IN /\ Room(db, conversation_id, current_user)
          /\ answered => Room(first, conversation_id, current_user)
          /\ db' = IF answered
                   THEN create_message(first, conversation_id, current_user, "ai", "response",
                                       clock)
                   ELSE db
          /\ reply' = ConversationReply("chat_with_ai", "ok", current_user, conversation_id,
                                        NoResult)
  /\ UNCHANGED <<reqs, clock, auth_manager, sessions, tokens, failed_logins>>
  /\ UNCHANGED security_state

\* a call of get_conversation; session.exec answers or raises
GetConversation ==
  /\ \E conversation_id \in RequestedConversationIds, user_id \in CurrentUsers,
        answered \in BOOLEAN :
       reply' = IF answered
                THEN ConversationReply("get_conversation", "ok", user_id, conversation_id,
                                       get_conversation(db, conversation_id, user_id))
                ELSE ConversationReply("get_conversation", "AttributeError", user_id,
                                       conversation_id, NoResult)
  /\ UNCHANGED <<reqs, clock, auth_manager, sessions, tokens, db, failed_logins>>
  /\ UNCHANGED security_state

ConvNext == CreateMessage \/ ChatWithAI \/ GetConversation

ConvSpec == Init /\ [][ConvNext]_vars

-----------------------------------------------------------------------------
(* Concurrent process_query requests on the shared instances                *)
(* ai_security_filter, privacy_manager and unified_agent.  The instances    *)
(* hold patterns, limits and the threshold, written by __init__ only; every *)
(* intermediate result is a local variable of the coroutine of the call.    *)
(* The event loop switches between the coroutines at their awaits.          *)

Requests == 1..MaxRequests

ConcurrentTexts == {<<Seg("a", 1)>>, <<Full("eval"), Seg("dig", 8)>>}

ConcurrentContexts == {EmptyContext, ContextOf({"personal_info", "transaction_data"}, TRUE)}

ConcurrentUsers == {"u1", "u2"}

\* what _process_internal answers for the request
ConcurrentResponses == {<<Full("adv")>>}

\* the audit emissions of these requests are written
Written == [injection |-> TRUE, masked |-> TRUE, failed |-> TRUE, leak |-> TRUE,
            forced |-> TRUE, selected |-> TRUE]

\* (a bug: sanitized_input and use_local are kept on the shared instance)
InstanceCell(i) == 1

\* the local variables of call i live in the frame of its own coroutine
Cell(i) == i

\* lines 343-346: should_use_local_processing with the row of the user
use_local(t, c, user_id) ==
  LET u == user_id_for_privacy(user_id)
  IN IF u = None \/ u = "" THEN score_decision(t, c, Written)
     ELSE consent_checked(one_or_none(u), t, c, Written)

\* lines 349-438 for the sanitized input s and the decision d: the local
\* path, else anonymize_context, _process_internal and filter_output
respond(a, generated, s, d) ==
  IF s.status # "ok" THEN ErrorResponse
  ELSE LET lf == filter_output(local_stub(s.text), Written)
           context == IF ~d.decision /\ a.context # EmptyContext
                      THEN anonymize_context(a.context, TRUE) ELSE a.context
           f == filter_output(generated, Written)
       IN IF d.decision /\ lf.status = "ok"
          THEN AgentResponse(lf.text, LocalWarnings(s.warnings, lf.warnings), TRUE,
                             LocalConfidence)
          ELSE IF ~IsMapping(context) \/ f.status # "ok" THEN ErrorResponse
          ELSE AgentResponse(f.text, InternalWarnings(s.warnings, f.warnings), d.decision,
                             classify_query(s.text))

InFlight(i) == reqs.calls[i].pc \notin {"idle", "done"}

Overlaps(i) == \E j \in Requests \ {i} : InFlight(j)

\* the call, up to the await of sanitize_input
BeginRequest(i) ==
  /\ reqs.calls[i].pc = "idle"
  /\ \E t \in ConcurrentTexts, c \in ConcurrentContexts, u \in ConcurrentUsers,
        r \in ConcurrentResponses :
       reqs' = [calls |-> [reqs.calls EXCEPT ![i] =
                             [pc |-> "sanitize",
                              args |-> [text |-> t, context |-> c, user_id |-> u],
                              response |-> r, ret |-> Idle, overlapped |-> Overlaps(i)]],
                frames |-> reqs.frames]
  /\ UNCHANGED <<clock, auth_manager, sessions, tokens, db, reply, failed_logins>>
  /\ UNCHANGED security_state

\* line 338: sanitized_input, input_warnings = await sanitize_input(...)
SanitizeRequest(i) ==
  /\ reqs.calls[i].pc = "sanitize"
  /\ LET s == sanitize_input(reqs.calls[i].args.text, Written)
     IN reqs' = [calls |-> [reqs.calls EXCEPT ![i].pc = IF s.status = "ok" THEN "route"
                                                        ELSE "respond",
                                              ![i].overlapped = @ \/ Overlaps(i)],
                 frames |-> [reqs.frames EXCEPT ![Cell(i)].san = s]]
  /\ UNCHANGED <<clock, auth_manager, sessions, tokens, db, reply, failed_logins>>
  /\ UNCHANGED security_state

\* line 344: use_local = await should_use_local_processing(sanitized_input, ...)
RouteRequest(i) ==
  /\ reqs.calls[i].pc = "route"
  /\ LET a == reqs.calls[i].args
         d == use_local(reqs.frames[Cell(i)].san.text, a.context, a.user_id)
     IN reqs' = [calls |-> [reqs.calls EXCEPT ![i].pc = "respond",
                                              ![i].overlapped = @ \/ Overlaps(i)],
                 frames |-> [reqs.frames EXCEPT ![Cell(i)].d = d]]
  /\ UNCHANGED <<clock, auth_manager, sessions, tokens, db, reply, failed_logins>>
  /\ UNCHANGED security_state

\* lines 349-438: the response is generated, filtered and returned
RespondRequest(i) ==
  /\ reqs.calls[i].pc = "respond"
  /\ LET frame == reqs.frames[Cell(i)]
     IN reqs' = [calls |-> [reqs.calls EXCEPT
                              ![i].pc = "done",
                              ![i].ret = respond(reqs.calls[i].args, reqs.calls[i].response,
                                                 frame.san, frame.d),
                              ![i].overlapped = @ \/ Overlaps(i)],
                 frames |-> reqs.frames]
  /\ UNCHANGED <<clock, auth_manager, sessions, tokens, db, reply, failed_logins>>
  /\ UNCHANGED security_state

\* the caller takes the response; the frame of the coroutine is gone
EndRequest(i) ==
  /\ reqs.calls[i].pc = "done"
  /\ reqs' = [calls |-> [reqs.calls EXCEPT ![i] = NoCall],
              frames |-> [reqs.frames EXCEPT ![Cell(i)] = NoFrame]]
  /\ UNCHANGED <<clock, auth_manager, sessions, tokens, db, reply, failed_logins>>
  /\ UNCHANGED security_state

ConcurrentNext ==
  \E i \in Requests :
    \/ BeginRequest(i)
    \/ SanitizeRequest(i)
    \/ RouteRequest(i)
    \/ RespondRequest(i)
    \/ EndRequest(i)

ConcurrentSpec == Init /\ [][ConcurrentNext]_vars

-----------------------------------------------------------------------------
(* Properties *)

RouteDecided == route.state = "decided"

SanitizeReturned == op = "sanitize_input" /\ pc = "done" /\ ret.status = "ok"

AllLogged == [injection |-> TRUE, masked |-> TRUE, failed |-> TRUE, leak |-> TRUE,
              forced |-> TRUE, selected |-> TRUE]

\* C1: whenever the consent lookup returned the row of a user whose
\* ai_data_consent is False, should_use_local_processing returns True, also
\* when the LOCAL_PROCESSING_FORCED_BY_CONSENT audit emission raises.
C1_ConsentFalseForcesLocal ==
  (RouteDecided /\ route.lookup = "row" /\ ai_data_consent[RouteUser] = FALSE)
    => route.d.decision = TRUE

\* C2: once the routing decision of a process_query request is local,
\* _process_internal is never invoked for that request.
C2_LocalNeverReachesInternal ==
  (op = "process_query" /\ RouteDecided /\ route.d.decision) => agent.internal = 0

\* C3: the text returned by sanitize_input has at most max_input_length
\* characters (as a direct result and as the sanitized input of process_query).
C3_CleanedTextWithinLimit ==
  /\ SanitizeReturned => TextLen(ret.text) <= max_input_length
  /\ san.status = "ok" => TextLen(san.text) <= max_input_length

C5_NoPersonalInfoForwarded ==
  anon.status = "ok" => "personal_info" \notin DOMAIN anon.context

C5_Witness ==
  /\ anon.status = "ok"
  /\ "personal_info" \in DOMAIN args.context
  /\ anon.context # EmptyContext

\* C6: should_use_local_processing always returns a decision, and it returns
\* True whenever scoring raised (the context is no mapping) or the outer
\* handler was entered (an audit failure on the scoring path).
C6_ScoringErrorDefaultsToLocal ==
  RouteDecided =>
    /\ route.d.how \in {"consent", "score", "fallback"}
    /\ (route.d.how = "fallback" \/ ~IsMapping(args.context)) => route.d.decision = TRUE

C6_Witness ==
  /\ RouteDecided
  /\ route.d.how = "fallback"
  /\ route.d.decision = TRUE

\* the decision of a call without user id: score >= threshold, True when
\* scoring raises
ScoreBasedDecision(t, c) ==
  ~IsMapping(c) \/ calculate_sensitivity_score(t, c) >= local_processing_threshold

\* C7: when the consent lookup raised or found no row, the decision is the
\* score-based decision of a call without user id.
C7_LookupFailureFallsThroughToScoring ==
  (RouteDecided /\ route.lookup \in {"error", "missing"})
    => route.d.decision = ScoreBasedDecision(RouteText, args.context)

\* a failed lookup for the user who opted out, routed to the cloud by the score
C7_Witness ==
  /\ RouteDecided
  /\ route.lookup = "error"
  /\ RouteUser = "u1"
  /\ route.d.decision = FALSE

C9_AuditFailureChangesNothing ==
  /\ (op = "sanitize_input" /\ pc = "done") => ret = sanitize_input(args.text, AllLogged)
  /\ (op = "filter_output" /\ pc = "done") => ret = filter_output(args.text, AllLogged)
  /\ (op = "anonymize_context" /\ pc = "done")
       => anon.context = anonymize_context(args.context, TRUE)
  /\ (op = "should_use_local_processing" /\ pc = "done") =>
       route.d.decision =
         (CASE route.lookup = "row" ->
                 consent_checked(RouteUser, RouteText, args.context, AllLogged)
            [] route.lookup = "error" ->
                 consent_lookup_failed(RouteText, args.context, AllLogged)
            [] OTHER -> score_decision(RouteText, args.context, AllLogged)).decision

\* C10: the warnings of an answered process_query request contain every
\* warning of its sanitize_input and of its filter_output.
C10_AllWarningsSurfaced ==
  (op = "process_query" /\ pc = "done" /\ ret.status = "ok" /\ ret # ErrorResponse)
    => (Range(san.warnings) \cup Range(out.warnings)) \subseteq Range(ret.warnings)

\* whether the request came back with an answer that is not the error response
Answered == ret.status = "ok" /\ ret # ErrorResponse

\* C11: a process_query request in which sanitize_input or filter_output
\* raised is treated as failed: it is never answered with a response of
\* another processing path.
C11_FailedRequestNotAnswered ==
  (op = "process_query" /\ pc = "done" /\ (san.status # "ok" \/ agent.filter_raised))
    => ~Answered

\* whether keyword w occurs in the lower-cased text
OccursIn(w, t) ==
  \E i \in 1..Len(t) :
    /\ t[i].k \notin RunKinds
    /\ \E o \in 0..(t[i].n - Len(w)) :
         \A c \in 1..Len(w) : Lower(Lit(t[i].k)[o + c]) = w[c]

\* k: the number of distinct keywords of the list that occur in the text
DistinctKeywords(t) ==
  Cardinality({j \in 1..Len(sensitive_keywords) : OccursIn(sensitive_keywords[j], t)})

Indicator(b) == IF b THEN 1 ELSE 0

\* min(0.2 k + 0.3 [transaction_data] + 0.4 [account_info] + 0.5 [personal_info], 1.0),
\* in tenths
ClaimedScore(t, c) ==
  LET sum == 2 * DistinctKeywords(t)
               + 3 * Indicator("transaction_data" \in DOMAIN c)
               + 4 * Indicator("account_info" \in DOMAIN c)
               + 5 * Indicator("personal_info" \in DOMAIN c)
  IN IF sum <= 10 THEN sum ELSE 10

\* C12: the score of a call that returns is the claimed function of the text
\* and the context, and it lies in [0.0, 1.0].
C12_ScoreIsCappedWeightedSum ==
  (op = "_calculate_sensitivity_score" /\ pc = "done" /\ ret.status = "ok")
    => /\ ret.score = ClaimedScore(args.text, args.context)
       /\ ret.score \in 0..10

\* a keyword that occurs twice counts once; the context adds its weight
C12_Witness ==
  /\ op = "_calculate_sensitivity_score"
  /\ pc = "done"
  /\ args.text = <<Full("tax"), Full("tax")>>
  /\ DOMAIN args.context = {"transaction_data"}
  /\ ret.status = "ok"
  /\ ret.score = 5

\* C13: without user id and without internal error the decision is
\* score >= 0.8: true for four or more distinct keywords, false for two
\* keywords and an empty context.
C13_NoUserDecisionIsThreshold ==
  (op = "should_use_local_processing" /\ RouteDecided /\ route.lookup = "skipped"
     /\ route.d.how = "score")
    => /\ route.d.decision = (ClaimedScore(args.text, args.context) >= 8)
       /\ DistinctKeywords(args.text) >= 4 => route.d.decision
       /\ (DistinctKeywords(args.text) = 2 /\ args.context = EmptyContext)
            => ~route.d.decision

\* four keywords and nothing else: the score is exactly the threshold
C13_Witness ==
  /\ op = "should_use_local_processing"
  /\ RouteDecided
  /\ route.lookup = "skipped"
  /\ route.d.how = "score"
  /\ args.text = <<Full("kw4")>>
  /\ args.context = EmptyContext
  /\ route.d.decision

\* whether the text contains "ignore previous instructions", in the letter
\* cases of the alphabet
HasPhrase(t) == \E i \in 1..Len(t) : t[i].k \in {"ign", "Ign"} /\ t[i].n = 28

HasSsn(t) == \E i \in 1..Len(t) : t[i].k = "ssn" /\ t[i].n = 11

\* C15 (for inputs within the length limit): an input that contains a
\* sequence XXX-XX-XXXX, whatever surrounds it, comes back without it and
\* with a masking warning that counts at least one pattern.
C15_SsnMaskedWhereverItOccurs ==
  (SanitizeReturned /\ TextLen(args.text) <= max_input_length /\ HasSsn(args.text))
    => /\ ~HasSsn(ret.text)
       /\ \E n \in 1..(2 * Len(args.text)) : WarnMasked(n) \in Range(ret.warnings)

\* C16: masking the text returned by _mask_sensitive_data returns it
\* unchanged, with a match count of 0.
C16_MaskingIdempotent ==
  (op = "_mask_sensitive_data" /\ pc = "done")
    => (out.text = ret.text /\ out.count = 0)

\* whether the text contains "guaranteed returns", in the letter cases of
\* the alphabet
HasGuaranteedReturns(t) ==
  \E i \in 1..Len(t) :
    \/ t[i].k \in {"adv", "Adv"} /\ t[i].n = 18
    \/ t[i].k = "gaddr" /\ t[i].n >= 20

\* the number of disclaimer sentences in the text
Disclaimers(t) == Cardinality({i \in 1..Len(t) : t[i] = Full("disc")})

FilterReturned == op = "filter_output" /\ pc = "done" /\ ret.status = "ok"

\* C17 (for responses within the length limit): a response that contains
\* "guaranteed returns" comes back with the disclaimer sentence appended
\* exactly once and with the disclaimer warning, whatever else it contains;
\* a response matching no advice pattern comes back without disclaimer.
C17_DisclaimerWheneverGuaranteedReturns ==
  (FilterReturned /\ TextLen(args.text) <= max_output_length) =>
    IF HasGuaranteedReturns(args.text)
    THEN /\ Disclaimers(ret.text) = 1
         /\ ret.text[Len(ret.text)] = Full("disc")
         /\ WarnDisclaimer \in Range(ret.warnings)
    ELSE /\ Disclaimers(ret.text) = 0
         /\ WarnDisclaimer \notin Range(ret.warnings)

-----------------------------------------------------------------------------
(* anonymize_context *)

IdentifierKeys == {"user_id", "account_id", "transaction_id"}

TransactionFields == {"amount", "category", "date", "type"}

\* a transaction_data value with an element that is no record
MalformedTransactions(c) ==
  /\ c # NotAMapping
  /\ "transaction_data" \in DOMAIN c
  /\ c["transaction_data"] = BadTransactions

\* a call of anonymize_context, direct or on the cloud path, has returned
AnonymizeReturned == anon.status = "ok"

\* an internal failure: the context has no items(), a transaction record has
\* no get(), or the audit event could not be written
AnonymizationFailed ==
  \/ args.context = NotAMapping
  \/ MalformedTransactions(args.context)
  \/ ~anon.logged

\* C18: when anonymize_context succeeds, the output has exactly the input's
\* keys minus personal_info; user_id, account_id and transaction_id map to the
\* hash of their value; every record under transaction_data has exactly the
\* fields amount, category, date and type, with the input's values; every
\* other key maps to its original value.
C18_AnonymizedShape ==
  (AnonymizeReturned /\ ~AnonymizationFailed) =>
    LET c == args.context
        r == anon.context
    IN /\ DOMAIN r = DOMAIN c \ {"personal_info"}
       /\ \A k \in DOMAIN r :
            IF k \in IdentifierKeys
            THEN r[k] = hash_identifier(c[k]) /\ r[k] # c[k]
            ELSE IF k = "transaction_data"
            THEN /\ Len(r[k]) = Len(c[k])
                 /\ \A i \in 1..Len(r[k]) :
                      /\ DOMAIN r[k][i] = TransactionFields
                      /\ \A f \in TransactionFields : r[k][i][f] = c[k][i][f]
            ELSE r[k] = c[k]

C18_Witness ==
  /\ op = "anonymize_context"
  /\ pc = "done"
  /\ ~AnonymizationFailed
  /\ DOMAIN args.context = ContextKeys
  /\ "description" \in DOMAIN args.context["transaction_data"][1]
  /\ DOMAIN anon.context = ContextKeys \ {"personal_info"}

C20_FailureReturnsEmpty ==
  /\ (op = "anonymize_context" /\ pc = "done") => AnonymizeReturned
  /\ (AnonymizeReturned /\ AnonymizationFailed) => anon.context = EmptyContext

C20_Witness ==
  /\ op = "anonymize_context"
  /\ pc = "done"
  /\ MalformedTransactions(args.context)
  /\ {"user_id", "account_info"} \subseteq DOMAIN args.context
  /\ anon.context = EmptyContext

-----------------------------------------------------------------------------
(* Order of the steps of sanitize_input and filter_output *)

\* the warnings whose conditions held, in the order of the list ws
Held(ws) ==
  LET RECURSIVE pick(_)
      pick(i) == IF i > Len(ws) THEN <<>>
                 ELSE (IF ws[i].held THEN <<ws[i].w>> ELSE <<>>) \o pick(i + 1)
  IN pick(1)

\* C24: sanitize_input truncates, then detects and neutralizes, then masks:
\* detection sees the truncated text, masking sees the neutralized text, and
\* the warnings are those of [truncation, injection, masking] whose
\* conditions held, in that order, each at most once.
C24_SanitizeStepsInOrder ==
  SanitizeReturned =>
    LET long == TextLen(args.text) > max_input_length
        truncated == Take(args.text, max_input_length)
        inj == injection_detected(truncated)
        neutralized == IF inj THEN sanitize_injection_attempt(truncated) ELSE truncated
        m == mask_sensitive_data(neutralized)
    IN /\ ret.text = m.text
       /\ ret.warnings = Held(<<[w |-> WarnInputTruncated, held |-> long],
                                [w |-> WarnInjection, held |-> inj],
                                [w |-> WarnMasked(m.count), held |-> m.count > 0]>>)

\* a digit run that is masked only because the phrase in front of it was
\* neutralized first
C24_Witness ==
  /\ SanitizeReturned
  /\ args.text = <<Full("ign"), Seg("dig", 8)>>
  /\ mask_sensitive_data(args.text).count = 0
  /\ ret.text = <<Full("fil"), Full("red")>>
  /\ ret.warnings = <<WarnInjection, WarnMasked(1)>>

\* C25: filter_output truncates exactly the responses longer than
\* max_output_length: such a response is cut to its first max_output_length
\* characters, gets the truncation marker, and the truncation warning is the
\* first warning; a response of at most max_output_length characters gets no
\* marker and no truncation warning; masking and then the advice scan are
\* applied to the truncated text.
C25_OutputTruncatedThenMaskedThenScanned ==
  FilterReturned =>
    LET long == TextLen(args.text) > max_output_length
        truncated == IF long THEN Take(args.text, max_output_length) \o <<Full("trunc")>>
                     ELSE args.text
        m == mask_sensitive_data(truncated)
        advice == contains_inappropriate_advice(m.text)
    IN /\ ret.text = IF advice THEN m.text \o <<Full("disc")>> ELSE m.text
       /\ ret.warnings = Held(<<[w |-> WarnOutputTruncated, held |-> long],
                                [w |-> WarnLeak(m.count), held |-> m.count > 0],
                                [w |-> WarnDisclaimer, held |-> advice]>>)
       /\ long => /\ ret.warnings[1] = WarnOutputTruncated
                  /\ Full("trunc") \in Range(ret.text)
                  /\ TextLen(Take(ret.text, max_output_length)) = max_output_length
       /\ ~long => /\ WarnOutputTruncated \notin Range(ret.warnings)
                   /\ Full("trunc") \notin Range(ret.text)

\* a response of exactly max_output_length characters comes back untouched
C25_Witness ==
  /\ FilterReturned
  /\ TextLen(args.text) = max_output_length
  /\ ret = Returned(args.text, <<>>)

-----------------------------------------------------------------------------
(* The pipeline of process_query *)

ProcessQueryDone == op = "process_query" /\ pc = "done"

\* C22: process_query never raises: it returns an AgentResponse whose
\* response_text is a non-empty string and whose confidence lies in
\* [0.0, 1.0], on the local path, the non-local path and the error path.
C22_AlwaysReturnsResponse ==
  ProcessQueryDone =>
    /\ ret.status = "ok"
    /\ TextLen(ret.text) > 0
    /\ ret.confidence \in 0..10

\* C26: the local generator and the downstream agent are invoked with the
\* text returned by sanitize_input and after the routing decision, and every
\* response text other than the error message is the output of
\* filter_output applied to what the generator or agent produced.
C26_PipelineOrder ==
  op = "process_query" =>
    /\ (agent.local + agent.internal > 0) =>
         /\ san.status = "ok"
         /\ agent.text = san.text
         /\ RouteDecided
    /\ (pc = "done" /\ Answered) =>
         /\ out.status = "ok"
         /\ ret.text = out.text
         /\ \E A \in FilterAudit :
              filter_output(out.response, A) = Returned(out.text, out.warnings)

\* an answered request whose input was changed by sanitize_input and whose
\* response was changed by filter_output
C26_Witness ==
  /\ ProcessQueryDone
  /\ Answered
  /\ agent.internal = 1
  /\ san.text # args.text
  /\ agent.text = san.text
  /\ ret.text # out.response

\* C27: when the routing decision is cloud and the request carries a
\* non-empty context, anonymize_context has run before the downstream agent
\* is invoked and the agent receives the mapping it returned, not the
\* caller's object; when anonymization fails the agent receives the empty
\* context.
C27_CloudContextAnonymized ==
  (op = "process_query" /\ agent.internal = 1 /\ ~route.d.decision
     /\ args.context # EmptyContext) =>
    /\ AnonymizeReturned
    /\ agent.context = anon.context
    /\ ~anon.same_object
    /\ AnonymizationFailed => agent.context = EmptyContext

C27_Witness ==
  /\ op = "process_query"
  /\ agent.internal = 1
  /\ ~route.d.decision
  /\ "personal_info" \in DOMAIN args.context
  /\ ~AnonymizationFailed
  /\ agent.context = anon.context
  /\ agent.context # args.context

\* the account of the first stored user is locked from time at for m minutes
LockedFor(m, at) ==
  /\ Head(StoredUsers) \in DOMAIN auth_manager.lockout_times
  /\ auth_manager.lockout_times[Head(StoredUsers)] = at + m

LoginFailed == reply.op = "authenticate_user" /\ reply.status = "ok" /\ reply.user = None

\* C28: through repeated failed authenticate_user attempts, the 5th failed
\* attempt locks the account for 5 minutes and the 10th failed attempt locks
\* it for 30 minutes, with failed_attempts >= 10
C28_ProgressiveLockout ==
  LoginFailed =>
    /\ failed_logins = FirstLockoutAttempts => LockedFor(FirstLockoutMinutes, reply.at)
    /\ failed_logins = SecondLockoutAttempts =>
         /\ GetOr(auth_manager.failed_attempts, Head(StoredUsers), 0) >= SecondLockoutAttempts
         /\ LockedFor(SecondLockoutMinutes, reply.at)

\* what the code does instead: the counter restarts at 0 when a lockout
\* expires, so it never passes the first threshold
FailedAttemptsStayBelowSecondThreshold ==
  /\ GetOr(auth_manager.failed_attempts, Head(StoredUsers), 0) <= FirstLockoutAttempts
  /\ \A u \in DOMAIN auth_manager.lockout_times :
       auth_manager.lockout_times[u] <= MaxClock + FirstLockoutMinutes

TenthFailureLocksFiveMinutes ==
  LoginFailed /\ failed_logins = SecondLockoutAttempts /\ LockedFor(FirstLockoutMinutes, reply.at)

IssuedSessions == {d.session_id : d \in tokens}

UserReturned == reply.op = "get_user_from_token" /\ reply.user # None

\* C29: get_user_from_token returns a user only for a token whose session_id
\* is in sessions; a session that was logged out stays out of the table, so
\* its tokens are rejected in all later calls; sessions are added only by
\* create_user_session; a logout leaves all other sessions unchanged
C29_SessionTable ==
  [][ /\ UserReturned' => reply'.session_id \in DOMAIN sessions'
      /\ (reply'.op = "get_user_from_token" /\ reply'.session_id \notin DOMAIN sessions)
           => reply'.user = None
      /\ \A s \in IssuedSessions \ DOMAIN sessions : s \notin DOMAIN sessions'
      /\ (DOMAIN sessions' \ DOMAIN sessions # {}) =>
           /\ reply'.op = "create_user_session"
           /\ DOMAIN sessions' \ DOMAIN sessions = {reply'.session_id}
           /\ reply'.session_id \notin IssuedSessions
      /\ reply'.op = "logout_user" =>
           /\ reply'.session_id \notin DOMAIN sessions'
           /\ \A s \in DOMAIN sessions \ {reply'.session_id} :
                s \in DOMAIN sessions' /\ sessions'[s] = sessions[s]
    ]_vars

\* a token of a logged-out session is rejected while another session lives on
C29_Witness ==
  /\ reply.op = "get_user_from_token"
  /\ reply.user = None
  /\ reply.session_id \in IssuedSessions \ DOMAIN sessions
  /\ \E d \in tokens : d.session_id = reply.session_id /\ clock <= d.iat + ACCESS_TOKEN_EXPIRE_MINUTES
  /\ DOMAIN sessions # {}

\* the transactions of the table that user created
CreatedBy(user) == {t \in db.transactions : t.user_id.value = user.value}

\* C23: listing transactions for a user returns exactly the transactions this
\* user created and has not deleted; a get or delete of another user's
\* transaction answers 404
C23_ListingIsExactlyOwnTransactions ==
  /\ reply.op = "list_transactions" =>
       reply.status = 200 /\ reply.rows = CreatedBy(reply.user)
  /\ (/\ reply.op \in {"get_transaction", "delete_transaction"}
      /\ \E t \in db.transactions : t.id.value = reply.id /\ t.user_id.value # reply.user.value)
       => reply.status = 404

\* a get or delete answers 404 only for a transaction that is not the user's own
OwnTransactionIsFound ==
  (reply.op \in {"get_transaction", "delete_transaction"} /\ reply.status = 404) =>
     \A t \in CreatedBy(reply.user) : t.id.value # reply.id

\* what the code does: no get finds a row and no delete removes one
NothingFoundNothingDeleted ==
  reply.op \in {"get_transaction", "delete_transaction"} => reply.status = 404

\* the stored messages of the calls user_id made with conversation_id
StoredFor(conversation_id, user_id) ==
  {i \in 1..Len(db.messages) :
     db.messages[i].requested = conversation_id /\ db.messages[i].user_id = user_id}

\* C30: for a fixed user, the messages of create_message calls made with the
\* same conversation_id are stored in one and the same conversation, and
\* get_conversation with that conversation_id returns all of them
C30_CreateOrAppend ==
  /\ \A i, j \in 1..Len(db.messages) :
       (/\ db.messages[i].requested = db.messages[j].requested
        /\ db.messages[i].user_id = db.messages[j].user_id)
         => db.messages[i].conversation_id = db.messages[j].conversation_id
  /\ (/\ reply.op = "get_conversation"
      /\ reply.status = "ok"
      /\ StoredFor(reply.conversation_id, reply.user) # {})
       => /\ reply.result.found
          /\ Len(reply.result.messages) = Cardinality(StoredFor(reply.conversation_id, reply.user))

\* what the code does: a call made with a generated conversation_id opens a
\* conversation of its own
GeneratedIdNeverFound ==
  (reply.op = "get_conversation" /\ reply.conversation_id.value \notin ConversationIds)
    => ~reply.result.found

\* the response of process_query for the arguments a when no other request
\* is in flight
Alone(a, generated) ==
  LET s == sanitize_input(a.text, Written)
      d == IF s.status = "ok" THEN use_local(s.text, a.context, a.user_id)
           ELSE Decision(FALSE, "none")
  IN respond(a, generated, s, d)

\* C21: for any interleaving of concurrent requests through the shared
\* filter, privacy-manager and agent instances, the text, warnings and routing
\* decision returned for each request equal those returned when that request
\* runs alone
C21_ConcurrentEqualsAlone ==
  \A i \in Requests :
    reqs.calls[i].pc = "done" =>
      reqs.calls[i].ret = Alone(reqs.calls[i].args, reqs.calls[i].response)

\* two requests that overlapped, one with an injection warning and one
\* without warnings, one local and one cloud
C21_Witness ==
  \E i, j \in Requests :
    /\ reqs.calls[i].pc = "done" /\ reqs.calls[j].pc = "done"
    /\ reqs.calls[i].overlapped /\ reqs.calls[j].overlapped
    /\ reqs.calls[i].ret.status = "ok" /\ reqs.calls[j].ret.status = "ok"
    /\ WarnInjection \in Range(reqs.calls[i].ret.warnings)
    /\ reqs.calls[j].ret.warnings = <<>>
    /\ ~reqs.calls[i].ret.local_processing
    /\ reqs.calls[j].ret.local_processing

====
